---- MODULE Spec2Model ----
(***************************************************************************)
(* Model of fairpy/indivisible/allocations.py: the integral Allocation     *)
(* container, the FractionalAllocation container, the fraction-map         *)
(* validator check_input and the valuation helpers.                        *)
(*                                                                         *)
(* A Python dict is a sequence of <<key, value>> pairs with distinct keys, *)
(* in insertion order (the order .keys() and .values() iterate in).        *)
(* A share is written as a decimal literal; the code receives the float    *)
(* the literal denotes and computes in floating point, with rounding.      *)
(***************************************************************************)
EXTENDS Integers, Sequences, FiniteSets, TLC

VARIABLES in_agents, in_maps, self_agents, self_map, out, pc, ret, fault,
          heap, inst, last_call

vars == <<in_agents, in_maps, self_agents, self_map, out, pc, ret, fault,
          heap, inst, last_call>>

fracVars == <<in_agents, in_maps, self_agents, self_map, out, pc, ret, fault>>
allocVars == <<heap, inst, last_call>>

\* ------------------------------------------------------------------ bounds
\* longest agents list and longest list of fraction maps, for maps over two
\* items
MaxAgents == 2
\* longest list of fraction maps over a single item
MaxRoundAgents == 4
\* longest agents list and list of fraction maps of the valuation runs
MaxValueAgents == 2
\* largest number of agents of an Allocation
MaxAllocAgents == 2

\* ------------------------------------------------------ Python float (double)
\* A float is held exactly as the integer hi * 2^30 + lo (0 <= lo < 2^30)
\* counting units of 2^-56: every double met here is a multiple of 2^-56 of
\* magnitude below 16.  An arithmetic operation is the exact operation
\* followed by rounding to 53 significant bits, ties to even.
Base == 2^30

\* the element of a one-element set: Once({ e(x) : x \in {v} }) is e(v) with
\* v computed a single time
Once(S) == CHOOSE r \in S : TRUE

XNorm(h, l) == [hi |-> h + (l \div Base), lo |-> l % Base]
XAdd(a, b) == XNorm(a.hi + b.hi, a.lo + b.lo)
XNeg(a) == IF a.lo = 0 THEN [hi |-> -a.hi, lo |-> 0]
           ELSE [hi |-> -a.hi - 1, lo |-> Base - a.lo]
XAbs(a) == IF a.hi < 0 THEN XNeg(a) ELSE a
XLess(a, b) == a.hi < b.hi \/ (a.hi = b.hi /\ a.lo < b.lo)

FZero == [hi |-> 0, lo |-> 0]
FOne == [hi |-> 2^26, lo |-> 0]

RECURSIVE XTimes(_, _)
\* k * a exactly, for a natural number k
XTimes(k, a) ==
    IF k = 0 THEN FZero ELSE Once({ XAdd(a, b) : b \in {XTimes(k - 1, a)} })

RECURSIVE BitLen(_)
BitLen(n) == IF n = 0 THEN 0 ELSE Once({ 1 + BitLen(h) : h \in {n \div 2} })

\* the number of low bits a magnitude m has beyond 53 significant ones
Drop(m) ==
    Once({ IF len > 53 THEN len - 53 ELSE 0 :
           len \in {IF m.hi > 0 THEN 30 + BitLen(m.hi) ELSE BitLen(m.lo)} })

\* the magnitude m + (a fraction of a unit) rounded at the multiples of p, a
\* power of two, ties to even: above is 0, 1, 2 or 3 as that fraction is
\* zero, below a half, a half, above a half
RoundMag(m, p, above) ==
    LET low == m.lo % p
        odd == (m.lo \div p) % 2 = 1
        up == IF p = 1
              THEN above = 3 \/ (above = 2 /\ odd)
              ELSE \/ 2 * low > p
                   \/ 2 * low = p /\ (above > 0 \/ odd)
    IN XNorm(m.hi, m.lo - low + (IF up THEN p ELSE 0))

\* the magnitude m + (a fraction of a unit) rounded to 53 significant bits
RoundAbs(m, above) == Once({ RoundMag(m, p, above) : p \in {2^Drop(m)} })

\* the double nearest to the exact value a + (a fraction of a unit)
RoundToDouble(a, above) ==
    Once({ IF x.hi < 0 THEN XNeg(RoundAbs(XNeg(x), above)) ELSE RoundAbs(x, above)
           : x \in {a} })

\* float + float
FAdd(a, b) == Once({ RoundToDouble(XAdd(x, y), 0) : x \in {a}, y \in {b} })

\* int * float (the int converts to a float exactly)
FMulInt(k, a) ==
    Once({ RoundToDouble(IF k < 0 THEN XNeg(XTimes(-k, x)) ELSE XTimes(k, x), 0)
           : x \in {a} })

\* the float a decimal literal of n tenths denotes
FromTenths(n) ==
    LET m == IF n < 0 THEN -n ELSE n
        whole == m \div 10
        h == (m % 10) * 2^26
        rem == h % 10
        q == XNorm(whole * 2^26 + (h \div 10),
                   rem * (Base \div 10) + (rem * (Base % 10)) \div 10)
        left == (rem * (Base % 10)) % 10
        above == IF left = 0 THEN 0 ELSE IF 2 * left < 10 THEN 1
                 ELSE IF 2 * left = 10 THEN 2 ELSE 3
    IN Once({ IF n < 0 THEN XNeg(r) ELSE r : r \in {RoundToDouble(q, above)} })

\* ---------------------------------------------------------- share literals
\* the literal of t tenths, and of t tenths + e * 2^-53 (e is 0 but for the
\* literal 0.5000000000000001, which is t = 5, e = 1)
Lit(n) == [t |-> n, e |-> 0]
HalfPlus == [t |-> 5, e |-> 1]

\* the float a share literal denotes (5 tenths + 2^-53 is a double)
ToFloat(s) == RoundToDouble(XAdd(FromTenths(s.t), [hi |-> 0, lo |-> 8 * s.e]), 0)

Items == {"x", "y"}
\* -0.1, 0, 0.5, 1.1
StructVals == {Lit(-1), Lit(0), Lit(5), Lit(11)}
\* 0.1, 0.2, 0.3, 0.4, 0.5, 0.5000000000000001
RoundVals == {Lit(1), Lit(2), Lit(3), Lit(4), Lit(5), HalfPlus}
\* 0, 0.4, 0.6, 1
ValueVals == {Lit(0), Lit(4), Lit(6), Lit(10)}

\* ------------------------------------------------------------ dict helpers
Min(a, b) == IF a < b THEN a ELSE b

Dicts(K, V) ==
    UNION { { d \in [1..n -> K \X V] :
                \A i, j \in 1..n : i # j => d[i][1] # d[j][1] }
            : n \in 0..Cardinality(K) }

\* dict.keys()
DictKeys(d) == [j \in 1..Len(d) |-> d[j][1]]
\* dict.values()
DictValues(d) == [j \in 1..Len(d) |-> d[j][2]]

SeqsUpTo(S, n) == UNION { [1..k -> S] : k \in 0..n }

\* the list of dicts of floats that the written list of dicts denotes
Floats(m) ==
    [i \in 1..Len(m) |-> [j \in 1..Len(m[i]) |-> <<m[i][j][1], ToFloat(m[i][j][2])>>]]

\* --------------------------------------------------------- diagnostic text
MsgMismatch == "The amount of agents differs from the dictionaries that represent how much each agent received from each item."
MsgInvalid == "Invalid input."
MsgRange == "The values of the fractional allocation of items are not between 0 and 1"
MsgOver == "There is an item whose sum of parts is greater than 1"
MsgUnclaimed == "There is an item that has not been assigned to any agent"

\* ------------------------------------------------------------- check_input
\* mutant: the lower bound of the range test is forgotten
OutOfRange_NoLower(v) == XLess(FOne, v)

\* `v > 1 or v < 0`
OutOfRange(v) == XLess(FOne, v) \/ XLess(v, FZero)

\* inner loop: zip(map_item_to_fraction[i].values(), range(len(sum_value_list)))
RECURSIVE AccumulateRow(_, _, _)
AccumulateRow(vs, j, sums) ==
    IF j > Min(Len(vs), Len(sums))
    THEN [bad |-> FALSE, sums |-> sums]
    ELSE Once({ IF OutOfRange(vs[j])
                THEN [bad |-> TRUE, sums |-> added]
                ELSE AccumulateRow(vs, j + 1, added)
                : added \in {[sums EXCEPT ![j] = FAdd(@, vs[j])]} })

\* outer loop: for i in range(len(map_item_to_fraction))
RECURSIVE AccumulateAll(_, _, _)
AccumulateAll(m, i, sums) ==
    IF i > Len(m)
    THEN [bad |-> FALSE, sums |-> sums]
    ELSE Once({ IF r.bad THEN r ELSE AccumulateAll(m, i + 1, r.sums)
                : r \in {AccumulateRow(DictValues(m[i]), 1, sums)} })

RECURSIVE CheckSums(_, _)
\* mutant: the test for an unclaimed item is left out
CheckSums_NoUnclaimed(sums, k) ==
    IF \E p \in k..Len(sums) : XLess(FOne, sums[p])
    THEN [raised |-> FALSE, ret |-> FALSE, out |-> <<MsgOver>>]
    ELSE [raised |-> FALSE, ret |-> TRUE, out |-> <<>>]

\* second loop: for k in range(len(sum_value_list))
CheckSums(sums, k) ==
    IF k > Len(sums)
    THEN [raised |-> FALSE, ret |-> TRUE, out |-> <<>>]
    ELSE IF XLess(FOne, sums[k])
    THEN [raised |-> FALSE, ret |-> FALSE, out |-> <<MsgOver>>]
    ELSE IF sums[k] = FZero
    THEN [raised |-> FALSE, ret |-> FALSE, out |-> <<MsgUnclaimed>>]
    ELSE CheckSums(sums, k + 1)

\* check_input(map_item_to_fraction): the returned boolean, the text printed,
\* and whether the call raised (map_item_to_fraction[0] on an empty list)
check_input(map_item_to_fraction) ==
    Once({ IF Len(m) = 0
           THEN [raised |-> TRUE, ret |-> FALSE, out |-> <<>>]
           ELSE Once({ IF acc.bad
                       THEN [raised |-> FALSE, ret |-> FALSE, out |-> <<MsgRange>>]
                       ELSE CheckSums(acc.sums, 1)
                       : acc \in {AccumulateAll(m, 1, [k \in 1..Len(m[1]) |-> FZero])} })
           : m \in {map_item_to_fraction} })

\* ------------------------------------------------------- valuation helpers
\* get_value_of_agent_in_alloc: zip of the two .values(), value += v1*v2
get_value_of_agent_in_alloc(value_of_the_whole_items, amount_of_the_items) ==
    LET v1 == DictValues(value_of_the_whole_items)
        v2 == DictValues(amount_of_the_items)
        n == Min(Len(v1), Len(v2))
        value[j \in 0..n] ==
            IF j = 0 THEN FZero ELSE FAdd(value[j - 1], FMulInt(v1[j], v2[j]))
    IN value[n]

\* the loop of value_of_fractional_allocation over enumerate(self.agents):
\* result after the agents 1..i
RECURSIVE SocialValue(_, _, _)
SocialValue(ags, m, i) ==
    IF i = 0 THEN FZero
    ELSE FAdd(SocialValue(ags, m, i - 1), get_value_of_agent_in_alloc(ags[i], m[i]))

\* ---------------------------------------------------- FractionalAllocation
\* a field of the object: not yet assigned, None, or the list it holds
Unset == [tag |-> "unset", val |-> <<>>]
NoneField == [tag |-> "None", val |-> <<>>]
ListField(l) == [tag |-> "list", val |-> l]

\* FractionalAllocation.__init__
FractionalAllocation_init(agents, map_item_to_fraction) ==
    IF Len(agents) # Len(map_item_to_fraction)
    THEN [raised |-> FALSE, agents |-> NoneField, map |-> NoneField,
          out |-> <<MsgMismatch>>]
    ELSE Once({ IF c.raised
                THEN [raised |-> TRUE, agents |-> Unset, map |-> Unset, out |-> c.out]
                ELSE IF c.ret
                THEN [raised |-> FALSE, agents |-> ListField(agents),
                      map |-> ListField(map_item_to_fraction), out |-> c.out]
                ELSE [raised |-> FALSE, agents |-> NoneField, map |-> NoneField,
                      out |-> c.out \o <<MsgInvalid>>]
                : c \in {check_input(map_item_to_fraction)} })

\* a dict that declares x before y
XFirst(d) == \A j \in 1..Len(d) : j > 1 => d[j - 1][1] = "x"

\* lists of maps that declare none, one or both of the items
StructMaps == SeqsUpTo({ d \in Dicts(Items, StructVals) : XFirst(d) }, MaxAgents)
\* lists of maps that give a share of x and nothing of y: y is not declared,
\* declared after x, or declared before x
RoundMaps ==
    UNION { SeqsUpTo({ << <<"x", v>> >> : v \in RoundVals }, MaxRoundAgents),
            SeqsUpTo({ << <<"x", v>>, <<"y", Lit(0)>> >> : v \in RoundVals }, MaxRoundAgents),
            SeqsUpTo({ << <<"y", Lit(0)>>, <<"x", v>> >> : v \in RoundVals }, MaxRoundAgents) }
\* maps with shares in [0,1], x before y
ValueMaps == { d \in Dicts(Items, ValueVals) : XFirst(d) }

\* the doctests' agents {'x':1, 'y':2} and {'x':3, 'y':-2}, and an agent
\* that values one item only
Alice == << <<"x", 1>>, <<"y", 2>> >>
George == << <<"x", 3>>, <<"y", -2>> >>
Carol == << <<"y", 2>> >>
ValuePool == {Alice, George, Carol}

AllocIdle ==
    /\ heap = << >>
    /\ inst = << >>
    /\ last_call = [op |-> "none", inst |-> "none", raised |-> FALSE]

FracStart ==
    /\ self_agents = Unset
    /\ self_map = Unset
    /\ out = << >>
    /\ pc = "start"
    /\ ret = [raised |-> FALSE, ret |-> FALSE, value |-> FZero]
    /\ fault = "none"

\* inputs of the validation claims: any number of agents with any maps over
\* two items, or as many agents as maps with maps that share out x only
InitFrac ==
    /\ \/ /\ in_maps \in StructMaps
          /\ in_agents \in SeqsUpTo({Alice}, MaxAgents)
       \/ /\ in_maps \in RoundMaps
          /\ in_agents = [i \in 1..Len(in_maps) |-> Alice]
    /\ FracStart
    /\ AllocIdle

\* inputs of the valuation claims: any valuations, in-range fraction maps
InitValue ==
    /\ in_agents \in SeqsUpTo(ValuePool, MaxValueAgents)
    /\ in_maps \in SeqsUpTo(ValueMaps, MaxValueAgents)
    /\ FracStart
    /\ AllocIdle

\* FractionalAllocation(in_agents, in_maps)
Construct ==
    /\ pc = "start"
    /\ \E r \in {FractionalAllocation_init(in_agents, Floats(in_maps))} :
       /\ self_agents' = r.agents
       /\ self_map' = r.map
       /\ out' = out \o r.out
       /\ pc' = IF r.raised THEN "init_raised" ELSE "constructed"
       /\ fault' = IF r.raised THEN "IndexError" ELSE fault
    /\ UNCHANGED <<in_agents, in_maps, ret>>
    /\ UNCHANGED allocVars

\* a direct call check_input(in_maps)
CallCheckInput ==
    /\ pc = "start"
    /\ \E c \in {check_input(Floats(in_maps))} :
       /\ ret' = [ret EXCEPT !.raised = c.raised, !.ret = c.ret]
       /\ out' = out \o c.out
       /\ pc' = IF c.raised THEN "check_raised" ELSE "checked"
       /\ fault' = IF c.raised THEN "IndexError" ELSE fault
    /\ UNCHANGED <<in_agents, in_maps, self_agents, self_map>>
    /\ UNCHANGED allocVars

\* self.value_of_fractional_allocation() on the constructed object; on the
\* sentinel object enumerate(None) raises
ValueOf ==
    /\ pc = "constructed"
    /\ IF self_agents.tag = "list"
       THEN /\ ret' = [ret EXCEPT !.value =
                         SocialValue(self_agents.val, self_map.val,
                                     Len(self_agents.val))]
            /\ pc' = "valued"
            /\ fault' = fault
       ELSE /\ pc' = "value_raised"
            /\ fault' = "TypeError"
            /\ ret' = ret
    /\ UNCHANGED <<in_agents, in_maps, self_agents, self_map, out>>
    /\ UNCHANGED allocVars

NextFrac == Construct \/ CallCheckInput \/ ValueOf

SpecFrac == InitFrac /\ [][NextFrac]_vars
SpecValue == InitValue /\ [][NextFrac]_vars

\* -------------------------------------------------------------- Allocation
\* list objects live in the heap and are held by reference: the caller's two
\* lists, and the list each constructor call makes when bundles is None
CallerLists == {"L1", "L2"}
Instances == {"A", "B"}
DefaultList(a) == "D_" \o a
BundleVals == {"xy", "z"}

NotMade == [made |-> FALSE, agents |-> << >>, bundles |-> "null", supplied |-> -1]

\* [None] * len(agents)
DefaultBundles(agents) == [i \in 1..Len(agents) |-> "None"]

\* list index of Python: negative indices count from the end; 0 when the
\* index is out of range (IndexError)
PyIndex(i, n) ==
    IF 0 <= i /\ i < n THEN i + 1
    ELSE IF i < 0 /\ -n <= i THEN n + i + 1
    ELSE 0

\* mutant: the bundle is appended instead of stored at the index
StoreAt_Append(l, k, bundle) == Append(l, bundle)

\* self.bundles[agent_index] = bundle, on the list object itself
StoreAt(l, k, bundle) == [l EXCEPT ![k] = bundle]

InitAlloc ==
    /\ heap = [r \in CallerLists |-> IF r = "L1" THEN <<"xy", "z">> ELSE <<"xy">>]
    /\ inst = [a \in Instances |-> NotMade]
    /\ last_call = [op |-> "none", inst |-> "none", raised |-> FALSE]
    /\ in_agents = << >>
    /\ in_maps = << >>
    /\ FracStart

\* a = Allocation(agents)  (bundles is None)
NewDefault(a, n) ==
    /\ ~inst[a].made
    /\ LET agents == [i \in 1..n |-> i] IN
       /\ heap' = [r \in DOMAIN heap \cup {DefaultList(a)} |->
                     IF r = DefaultList(a) THEN DefaultBundles(agents) ELSE heap[r]]
       /\ inst' = [inst EXCEPT ![a] = [made |-> TRUE, agents |-> agents,
                                        bundles |-> DefaultList(a), supplied |-> -1]]
    /\ last_call' = [op |-> "init", inst |-> a, raised |-> FALSE]
    /\ UNCHANGED fracVars

\* a = Allocation(agents, bundles) with bundles one of the caller's lists
NewWith(a, n, b) ==
    /\ ~inst[a].made
    /\ inst' = [inst EXCEPT ![a] = [made |-> TRUE, agents |-> [i \in 1..n |-> i],
                                     bundles |-> b, supplied |-> Len(heap[b])]]
    /\ heap' = heap
    /\ last_call' = [op |-> "init", inst |-> a, raised |-> FALSE]
    /\ UNCHANGED fracVars

\* a.set_bundle(agent_index, bundle)
SetBundle(a, agent_index, bundle) ==
    /\ inst[a].made
    /\ LET r == inst[a].bundles
           k == PyIndex(agent_index, Len(heap[r]))
       IN IF k = 0
          THEN /\ heap' = heap
               /\ last_call' = [op |-> "set_bundle", inst |-> a, raised |-> TRUE]
          ELSE /\ heap' = [heap EXCEPT ![r] = StoreAt(@, k, bundle)]
               /\ last_call' = [op |-> "set_bundle", inst |-> a, raised |-> FALSE]
    /\ inst' = inst
    /\ UNCHANGED fracVars

\* a.set_bundles(bundles) with bundles one of the caller's lists
SetBundles(a, b) ==
    /\ inst[a].made
    /\ inst' = [inst EXCEPT ![a].bundles = b, ![a].supplied = Len(heap[b])]
    /\ heap' = heap
    /\ last_call' = [op |-> "set_bundles", inst |-> a, raised |-> FALSE]
    /\ UNCHANGED fracVars

NextAlloc ==
    \/ \E a \in Instances, n \in 0..MaxAllocAgents : NewDefault(a, n)
    \/ \E a \in Instances, n \in 0..MaxAllocAgents, b \in CallerLists : NewWith(a, n, b)
    \/ \E a \in Instances, i \in (-MaxAllocAgents - 1)..MaxAllocAgents, bundle \in BundleVals :
          SetBundle(a, i, bundle)
    \/ \E a \in Instances, b \in CallerLists : SetBundles(a, b)

SpecAlloc == InitAlloc /\ [][NextAlloc]_vars

\* ====================================================== claim vocabulary
\* These definitions state what the claims speak of (items by identifier,
\* shares as the decimal numbers written) independently of how check_input
\* computes.

Sum(f, S) ==
    LET RECURSIVE Fold(_)
        Fold(T) == IF T = {} THEN 0
                   ELSE LET e == CHOOSE e \in T : TRUE IN f[e] + Fold(T \ {e})
    IN Fold(S)

\* the share of item in the map d, 0 when d does not declare the item
DictGet(d, item) ==
    IF \E j \in 1..Len(d) : d[j][1] = item
    THEN d[CHOOSE j \in 1..Len(d) : d[j][1] = item][2]
    ELSE Lit(0)

\* the items some map of the list declares
ItemsOf(m) == UNION { { m[i][j][1] : j \in 1..Len(m[i]) } : i \in 1..Len(m) }

\* the exact sum of the shares of one item over all agents: tenths, and
\* multiples of 2^-53 on top of them
SumT(m, item) == Sum([i \in 1..Len(m) |-> DictGet(m[i], item).t], 1..Len(m))
SumE(m, item) == Sum([i \in 1..Len(m) |-> DictGet(m[i], item).e], 1..Len(m))

\* 0 <= s <= 1 for the number s written
InRange(s) ==
    /\ s.t > 0 \/ (s.t = 0 /\ s.e >= 0)
    /\ s.t < 10 \/ (s.t = 10 /\ s.e <= 0)

AllInRange(m) == \A i \in 1..Len(m) : \A j \in 1..Len(m[i]) : InRange(m[i][j][2])

Overallocated(m, item) ==
    SumT(m, item) > 10 \/ (SumT(m, item) = 10 /\ SumE(m, item) > 0)
Unclaimed(m, item) == SumT(m, item) = 0 /\ SumE(m, item) = 0

ValidMaps(m) ==
    /\ AllInRange(m)
    /\ \A item \in ItemsOf(m) : ~Overallocated(m, item) /\ ~Unclaimed(m, item)

\* the shares of one item added up in floating point, agent after agent
RECURSIVE FloatSum(_, _, _)
FloatSum(m, item, i) ==
    IF i = 0 THEN FZero
    ELSE FAdd(FloatSum(m, item, i - 1), ToFloat(DictGet(m[i], item)))

\* the floating-point sum of the item's shares exceeds 1
FloatOver(m, item) == XLess(FOne, FloatSum(m, item, Len(m)))

\* all maps declare the same items in the same order (the input contract of
\* the validator)
SameItemsSameOrder(m) == \A i \in 1..Len(m) : DictKeys(m[i]) = DictKeys(m[1])

\* under SameItemsSameOrder: the item at position k
ItemAt(m, k) == m[1][k][1]

ValidState == self_agents.tag = "list" /\ self_map.tag = "list"
Sentinel == self_agents.tag = "None" /\ self_map.tag = "None"
Constructed == pc \in {"constructed", "valued", "value_raised"}

\* C1, taken on maps that declare the same items in the same order: a
\* FractionalAllocation in the valid state has as many agents as maps, every
\* share in [0,1] and every item's shares summing to a value in (0,1].
C1_ValidStateInvariant ==
    (Constructed /\ ValidState /\ SameItemsSameOrder(in_maps))
        => /\ Len(self_agents.val) = Len(self_map.val)
           /\ self_map.val = Floats(in_maps)
           /\ AllInRange(in_maps)
           /\ \A item \in ItemsOf(in_maps) :
                 ~Overallocated(in_maps, item) /\ ~Unclaimed(in_maps, item)

OutcomeIs(r, text) == pc = "checked" /\ ret.ret = r /\ out = text

\* C2 as stated: whenever some share is > 1 or < 0, check_input returns False
\* and prints the out-of-range diagnostic and nothing else.
C2_AsStated ==
    (pc \in {"checked", "check_raised"} /\ ~AllInRange(in_maps))
        => OutcomeIs(FALSE, <<MsgRange>>)

\* C2 amended: the same, for maps that declare the same items in the same order.
C2_RangeFirst ==
    (pc \in {"checked", "check_raised"} /\ SameItemsSameOrder(in_maps)
       /\ ~AllInRange(in_maps))
        => OutcomeIs(FALSE, <<MsgRange>>)

\* an out-of-range share together with an unclaimed and an over-allocated item
C2_Witness ==
    /\ pc = "checked"
    /\ Len(in_maps) = 2
    /\ SameItemsSameOrder(in_maps)
    /\ \E i \in 1..2 : \E j \in 1..Len(in_maps[i]) : ~InRange(in_maps[i][j][2])
    /\ \E item \in ItemsOf(in_maps) : Unclaimed(in_maps, item)
    /\ \E item \in ItemsOf(in_maps) : Overallocated(in_maps, item)
    /\ out = <<MsgRange>>

\* C3, taken on non-empty lists of maps that declare the same items in the
\* same order: on every valid list of maps check_input returns True and
\* prints nothing.
C3_ValidAccepted ==
    (pc \in {"checked", "check_raised"} /\ Len(in_maps) > 0
       /\ SameItemsSameOrder(in_maps) /\ ValidMaps(in_maps))
        => OutcomeIs(TRUE, << >>)

\* the first position whose item is over-allocated or unclaimed is over-allocated
FirstFailureIsOver(m) ==
    \E k \in 1..Len(m[1]) :
        /\ Overallocated(m, ItemAt(m, k))
        /\ \A p \in 1..(k - 1) : ~Unclaimed(m, ItemAt(m, p))

\* C4, taken on maps that declare the same items in the same order and in
\* which no unclaimed item is positioned before the first over-allocated
\* one: all shares in [0,1] and some item over-allocated: check_input
\* returns False with the over-allocation diagnostic.
C4_OverAllocated ==
    (pc \in {"checked", "check_raised"} /\ Len(in_maps) > 0
       /\ SameItemsSameOrder(in_maps)
       /\ AllInRange(in_maps) /\ FirstFailureIsOver(in_maps))
        => OutcomeIs(FALSE, <<MsgOver>>)

\* C5 as stated, taken on maps that declare the same items in the same order
\* with all shares in [0,1]: some item's shares sum to exactly 0: check_input
\* returns False with the unclaimed-item diagnostic.
C5_AsStated ==
    (pc \in {"checked", "check_raised"} /\ SameItemsSameOrder(in_maps)
       /\ AllInRange(in_maps)
       /\ \E item \in ItemsOf(in_maps) : Unclaimed(in_maps, item))
        => OutcomeIs(FALSE, <<MsgUnclaimed>>)

\* no item before the first unclaimed one has a floating-point sum above 1
FirstFailureIsUnclaimed(m) ==
    \E k \in 1..Len(m[1]) :
        /\ Unclaimed(m, ItemAt(m, k))
        /\ \A p \in 1..(k - 1) : ~FloatOver(m, ItemAt(m, p))

\* C5 amended: for maps with the same items in the same order, all shares in
\* [0,1] and some item unclaimed, check_input returns False with exactly one
\* diagnostic: the unclaimed-item one when no item before the first unclaimed
\* one has shares whose floating-point sum, taken in agent order, exceeds 1,
\* the over-allocation one otherwise.
C5_Unclaimed ==
    (pc \in {"checked", "check_raised"} /\ SameItemsSameOrder(in_maps)
       /\ AllInRange(in_maps)
       /\ \E item \in ItemsOf(in_maps) : Unclaimed(in_maps, item))
        => OutcomeIs(FALSE, IF FirstFailureIsUnclaimed(in_maps)
                            THEN <<MsgUnclaimed>> ELSE <<MsgOver>>)

\* first item claimed in halves, second unclaimed: unclaimed is reported
C5_Witness ==
    /\ pc = "checked"
    /\ Len(in_maps) = 2 /\ Len(in_maps[1]) = 2
    /\ SameItemsSameOrder(in_maps)
    /\ in_maps[1][1][2] = Lit(5) /\ in_maps[2][1][2] = Lit(5)
    /\ Unclaimed(in_maps, ItemAt(in_maps, 2))
    /\ out = <<MsgUnclaimed>>

\* C6: construction ends in the sentinel state exactly when the counts differ
\* or check_input fails, otherwise both fields hold the supplied lists; the
\* fields are None together; on a count mismatch only the mismatch text is
\* printed.
C6_SentinelExactly ==
    pc \in {"constructed", "init_raised"} =>
        LET mismatch == Len(in_agents) # Len(in_maps) IN
        /\ Sentinel <=> (mismatch \/ ~check_input(Floats(in_maps)).ret)
        /\ ~Sentinel => (self_agents = ListField(in_agents)
                          /\ self_map = ListField(Floats(in_maps)))
        /\ (self_agents.tag = "None") <=> (self_map.tag = "None")
        /\ mismatch => out = <<MsgMismatch>>

\* C7: constructing a FractionalAllocation never raises.
C7_NeverRaises == pc # "init_raised"

\* ------------------------------------------------------------ valuation
\* the pairs (value, share) that zip() yields for agent i
Paired(ags, m, i) == 1..Min(Len(ags[i]), Len(m[i]))

\* what the item position p contributes to the social value, in tenths
Contribution(ags, m, p) ==
    LET holders == { i \in 1..Len(ags) : p \in Paired(ags, m, i) } IN
    Sum([i \in 1..Len(ags) |-> ags[i][p][2] * m[i][p][2].t], holders)

Positions(ags, m) == UNION { Paired(ags, m, i) : i \in 1..Len(ags) }

\* the sum over agents and item positions of value * share, in tenths
ExactValue(ags, m) ==
    Sum([p \in Positions(ags, m) |-> Contribution(ags, m, p)], Positions(ags, m))

\* every agent's share at position p multiplied by f
Scaled(m, p, f) ==
    [i \in 1..Len(m) |->
        [j \in 1..Len(m[i]) |->
            IF j = p THEN <<m[i][j][1], Lit(f * m[i][j][2].t)>> ELSE m[i][j]]]

Factors == {0, 2, 3}

\* C9: the social value is the sum over agents and item positions of
\* value * share, and scaling every agent's share at one position by a factor
\* scales the contribution of that position, and nothing else, by the factor.
\* The sum is the number the program prints for it: the float nearest to it.
C9_SocialValue ==
    pc = "valued" =>
        LET ags == in_agents
            m == in_maps
            n == Len(in_agents)
        IN /\ ret.value = FromTenths(ExactValue(ags, m))
           /\ \A p \in Positions(ags, m) : \A f \in Factors :
                 \A scaled \in {Floats(Scaled(m, p, f))} :
                 SocialValue(ags, scaled, n)
                    = FromTenths(ExactValue(ags, m) - Contribution(ags, m, p)
                                   + f * Contribution(ags, m, p))

\* ------------------------------------------------------------ Allocation
Made(a) == inst[a].made
BundlesOf(a) == heap[inst[a].bundles]

\* C8 as stated: after construction and any sequence of set_bundle and
\* set_bundles calls, len(bundles) == len(agents).
C8_AsStated ==
    \A a \in Instances : Made(a) => Len(BundlesOf(a)) = Len(inst[a].agents)

\* C8 amended: len(bundles) == len(agents) holds whenever the list the
\* instance holds was made by the constructor, or had len(agents) entries when
\* it was passed to the constructor or to set_bundles; set_bundle never changes
\* a length.
C8_LengthKept ==
    \A a \in Instances :
        (Made(a) /\ inst[a].supplied \in {-1, Len(inst[a].agents)})
            => Len(BundlesOf(a)) = Len(inst[a].agents)

\* a default list and a supplied list, each after a set_bundle that stored
C8_Witness ==
    /\ Made("A") /\ Made("B")
    /\ inst["A"].supplied = -1 /\ Len(inst["A"].agents) = 2
    /\ inst["B"].supplied = 2 /\ Len(inst["B"].agents) = 2
    /\ BundlesOf("A") = <<"z", "None">>
    /\ BundlesOf("B") = <<"z", "z">>
    /\ last_call = [op |-> "set_bundle", inst |-> "B", raised |-> FALSE]

\* C10: set_bundle(i, b) on one instance changes slot i of that instance only:
\* its other slots, the bundles of every other instance and the caller's lists
\* stay as they were.
C10_OwnListOnly ==
    [][\A a \in Instances :
         \A i \in (-MaxAllocAgents - 1)..MaxAllocAgents : \A bundle \in BundleVals :
           SetBundle(a, i, bundle) =>
              /\ \A c \in Instances \ {a} : Made(c) =>
                    heap'[inst'[c].bundles] = heap[inst[c].bundles]
              /\ \A l \in CallerLists : heap'[l] = heap[l]
              /\ Len(heap'[inst'[a].bundles]) = Len(BundlesOf(a))
              /\ \A k \in 1..Len(BundlesOf(a)) :
                    k # PyIndex(i, Len(BundlesOf(a)))
                       => heap'[inst'[a].bundles][k] = BundlesOf(a)[k]]_vars
====
